---- MODULE Spec2Model ----
(***************************************************************************)
(* Model of ZmodADC.c (dpmutil): the calibration report driver             *)
(* FDisplayZmodADCCal and the two coefficient functions                    *)
(* ComputeMultCoefADC1410 and ComputeAddCoefADC1410.                       *)
(*                                                                         *)
(* Floating point values are modelled as exact binary-scaled rationals     *)
(* [nan, p, q, e] standing for (p/q) * 2^e with q odd.  A C float is such  *)
(* a value with q = 1 and |p| < 2^24 (ToFloat rounds to that form, ties to *)
(* even).  Intermediate double results are kept exact: their 53-bit        *)
(* rounding error is far below the float spacing the result is rounded to.  *)
(* Exponents of the model stay far inside the float exponent range, so     *)
(* overflow to infinity and subnormals do not arise; the only non-finite   *)
(* value modelled is NaN (what erased flash, 0xFFFFFFFF, decodes to).      *)
(***************************************************************************)
EXTENDS Integers, Sequences, FiniteSets, TLC

(* ---------------------------------------------------------------- *)
(*  Bounds of the model                                              *)
(* ---------------------------------------------------------------- *)

\* Inputs of the coefficient functions are m * 2^e, |m| <= MaxMant,
\* -MaxNegExp <= e <= MaxExp, and NaN.
MaxMant == 5
MaxNegExp == 20
MaxExp == 18

\* The device regions hold the records Record(0) .. Record(NumSeeds - 1).
NumSeeds == 3

(* ---------------------------------------------------------------- *)
(*  Arithmetic helpers                                               *)
(* ---------------------------------------------------------------- *)

Abs(n) == IF n < 0 THEN -n ELSE n

RECURSIVE GCD(_, _)
GCD(a, b) == IF b = 0 THEN a ELSE GCD(b, a % b)

\* Integer division truncating toward zero, as a C conversion does.
TruncDiv(a, b) == IF a >= 0 THEN a \div b ELSE -((-a) \div b)

NaN == [nan |-> TRUE, p |-> 0, q |-> 1, e |-> 0]

RECURSIVE StripTwos(_, _, _)
StripTwos(p, q, e) ==
    IF p = 0 THEN [nan |-> FALSE, p |-> 0, q |-> 1, e |-> 0]
    ELSE IF p % 2 = 0 THEN StripTwos(p \div 2, q, e + 1)
    ELSE IF q % 2 = 0 THEN StripTwos(p, q \div 2, e - 1)
    ELSE [nan |-> FALSE, p |-> p, q |-> q, e |-> e]

\* The value (p/q) * 2^e in lowest terms with p and q odd.
Val(p, q, e) ==
    LET g == GCD(Abs(p), q)
    IN  IF p = 0 THEN StripTwos(0, 1, 0) ELSE StripTwos(p \div g, q \div g, e)

\* double * double and double / double (b is never zero here).
DMul(a, b) ==
    IF a.nan \/ b.nan THEN NaN
    ELSE LET g1 == GCD(Abs(a.p), b.q)
             g2 == GCD(Abs(b.p), a.q)
         IN  IF a.p = 0 \/ b.p = 0 THEN Val(0, 1, 0)
             ELSE Val((a.p \div g1) * (b.p \div g2),
                      (a.q \div g2) * (b.q \div g1), a.e + b.e)

DDiv(a, b) ==
    IF a.nan \/ b.nan THEN NaN
    ELSE IF b.p < 0
         THEN DMul(a, [nan |-> FALSE, p |-> -b.q, q |-> -b.p, e |-> -b.e])
         ELSE DMul(a, [nan |-> FALSE, p |-> b.q, q |-> b.p, e |-> -b.e])

RECURSIVE BitLen(_)
BitLen(n) == IF n = 0 THEN 0 ELSE 1 + BitLen(n \div 2)

\* Long division, one quotient bit a step, until the quotient has 24 bits
\* or the division is exact.
RECURSIVE Widen(_, _, _, _)
Widen(Q, R, q, e) ==
    IF R = 0 \/ Q >= 2^23 THEN <<Q, R, e>>
    ELSE IF 2 * R >= q THEN Widen(2 * Q + 1, 2 * R - q, q, e - 1)
         ELSE Widen(2 * Q, 2 * R, q, e - 1)

\* Conversion of a double to float: round to a 24-bit significand, ties to
\* even.
ToFloat(x) ==
    IF x.nan THEN NaN
    ELSE IF x.p = 0 THEN x
    ELSE
      LET a  == Abs(x.p)
          s  == IF x.p < 0 THEN -1 ELSE 1
          Q0 == a \div x.q
      IN  IF Q0 >= 2^24
          THEN LET k   == BitLen(Q0) - 24
                   D   == x.q * 2^k
                   M   == a \div D
                   rem == a % D
                   up  == rem > D - rem \/ (rem = D - rem /\ M % 2 = 1)
               IN  Val(s * (IF up THEN M + 1 ELSE M), 1, x.e + k)
          ELSE LET w  == Widen(Q0, a % x.q, x.q, x.e)
                   up == w[2] > x.q - w[2]
               IN  Val(s * (IF up THEN w[1] + 1 ELSE w[1]), 1, w[3])

\* The float sum 1 + cg of a float cg (int 1 is converted to float).  The
\* exact sum is formed in integers; when cg is so large or so small that
\* the other operand is below half a unit in the last place the sum is the
\* larger operand.  (Significands of the model are below 32.)
OnePlus(cg) ==
    IF cg.nan THEN NaN
    ELSE IF cg.p = 0 THEN Val(1, 1, 0)
    ELSE IF cg.e >= 25 THEN cg
    ELSE IF cg.e >= 0 THEN ToFloat(Val(1 + cg.p * 2^cg.e, 1, 0))
    ELSE IF cg.e >= -29 THEN ToFloat(Val(2^(-cg.e) + cg.p, 1, cg.e))
    ELSE Val(1, 1, 0)

(* ---------------------------------------------------------------- *)
(*  Miscellaneous Declarations (ZmodADC.c lines 50-53)               *)
(* ---------------------------------------------------------------- *)

ADC1410_IDEAL_RANGE_ADC_HIGH == Val(1, 1, 0)        \* 1.0
ADC1410_IDEAL_RANGE_ADC_LOW  == Val(25, 1, 0)       \* 25.0
\* The real ranges set to the ideal ones.
RealRangeHighIsIdeal == Val(1, 1, 0)
RealRangeLowIsIdeal == Val(25, 1, 0)

ADC1410_REAL_RANGE_ADC_HIGH  == Val(543, 125, -2)   \* 1.086 = 543/500
ADC1410_REAL_RANGE_ADC_LOW   == Val(105, 1, -2)     \* 26.25 = 105/4

\* INT32_MIN, written so that no intermediate leaves 32 bits.
Int32Min == (-2147483647) - 1
Int32Max == 2147483647

\* Values a build can leave in an int32_t when the converted double is NaN
\* or outside the range of int32_t (undefined behaviour): the x86 "integer
\* indefinite", the ARM saturations, and arbitrary register contents.
Int32Outcomes == {Int32Min, Int32Max, 0, -1, 305419896}

\* (int32_t)(fval + 0.5): the double sum is exact, the conversion truncates
\* toward zero and is undefined when the truncated value is not an int32_t.
RoundToInt32(fval) ==
    IF fval.nan THEN Int32Outcomes
    ELSE IF fval.e >= 0
    THEN IF fval.e <= 7 \/ (fval.e <= 30 /\ Abs(fval.p) < 2^(31 - fval.e))
         THEN LET N == fval.p * 2^fval.e
              IN  {IF N >= 0 THEN N ELSE N + 1}
         ELSE IF fval.p = -1 /\ fval.e = 31 THEN {-2147483647}
         ELSE Int32Outcomes
    ELSE IF fval.e <= -30 THEN {0}
    ELSE {TruncDiv(2 * fval.p + 2^(-fval.e), 2^(1 - fval.e))}

\* Saturation to the 18-bit range instead of the mask.
Keep18BitsSaturate(ival) ==
    IF ival > 262143 THEN 262143 ELSE IF ival < 0 THEN 0 ELSE ival

\* A sign bit and a 17-bit magnitude instead of the mask.
Keep18BitsSignMagnitude(ival) ==
    IF ival < 0 THEN 131072 + ((131072 - (ival % 131072)) % 131072)
    ELSE ival % 131072

\* ival &= (1<<18) - 1 on a two's complement int32_t.
Keep18Bits(ival) == ival % 262144

(* ---------------------------------------------------------------- *)
(*  ComputeMultCoefADC1410 / ComputeAddCoefADC1410                   *)
(* ---------------------------------------------------------------- *)

\* The set of possible executions of the call: the locals fval and ival
\* and the value returned.
ComputeMultCoefADC1410(cg, fHighGain) ==
    LET ratio == IF fHighGain
                 THEN DDiv(ADC1410_REAL_RANGE_ADC_HIGH, ADC1410_IDEAL_RANGE_ADC_HIGH)
                 ELSE DDiv(ADC1410_REAL_RANGE_ADC_LOW, ADC1410_IDEAL_RANGE_ADC_LOW)
        fval  == ToFloat(DMul(DMul(ratio, OnePlus(cg)), Val(1, 1, 16)))
    IN  { [fval |-> fval, ival |-> iv, ret |-> Keep18Bits(iv)] :
            iv \in RoundToInt32(fval) }

ComputeAddCoefADC1410(ca, fHighGain) ==
    LET ideal == IF fHighGain THEN ADC1410_IDEAL_RANGE_ADC_HIGH
                 ELSE ADC1410_IDEAL_RANGE_ADC_LOW
        fval  == ToFloat(DMul(DDiv(ca, ideal), Val(1, 1, 17)))
    IN  { [fval |-> fval, ival |-> iv, ret |-> Keep18Bits(iv)] :
            iv \in RoundToInt32(fval) }

(* ---------------------------------------------------------------- *)
(*  Output formatting                                                *)
(* ---------------------------------------------------------------- *)

\* printf("0x%05X", (unsigned int)v) for 0 <= v < 2^20: five hexadecimal
\* digits, most significant first, zero padded (digit values 0..15).
Fmt05X(v) ==
    << (v \div 65536) % 16, (v \div 4096) % 16, (v \div 256) % 16,
       (v \div 16) % 16, v % 16 >>

(* ---------------------------------------------------------------- *)
(*  The device and the bus                                           *)
(* ---------------------------------------------------------------- *)

\* sizeof(ZMOD_ADC_CAL); the structure is declared in ZmodADC.h.  The model
\* relies only on the size being one fixed positive number.
cbZmodAdcCal == 128

\* Entries found in calibration flash: small gain and offset errors of both
\* signs, zero, erased flash (NaN) and a value far out of range.
RecVals ==
    << Val(1, 1, -7), Val(-3, 1, -9), Val(5, 1, -12), Val(-1, 1, -4),
       Val(3, 1, -5), Val(-5, 1, -17), Val(1, 1, -2), Val(-5, 1, -10),
       Val(0, 1, 0), NaN, Val(3, 1, 4) >>

\* A ZMOD_ADC_CAL as far as FDisplayZmodADCCal uses it: date and
\* cal[2][2][2].
Record(seed) ==
    [ date |-> seed,
      cal  |-> [c \in 0..1 |-> [g \in 0..1 |-> [k \in 0..1 |->
                 RecVals[((3 * seed + 4 * c + 2 * g + k) % Len(RecVals)) + 1]]]] ]

Records == { Record(s) : s \in 0..(NumSeeds - 1) }

Regions == {"addrAdcFactCalStart", "addrAdcUserCalStart"}

\* Outcomes of one SyzygyI2cRead of cb bytes at addr: success with the
\* whole record transferred, or failure with fewer bytes received.
SyzygyI2cRead(flash, addr, cb) ==
    { [ok |-> TRUE, cbRead |-> cb, data |-> flash[addr]] }
    \cup { [ok |-> FALSE, cbRead |-> n, data |-> flash[addr]] : n \in 0..(cb - 1) }

(* ---------------------------------------------------------------- *)
(*  State                                                            *)
(* ---------------------------------------------------------------- *)

VARIABLES
    dev,      \* calibration flash of the Zmod: region |-> record
    pc,       \* position of FDisplayZmodADCCal
    adcal,    \* the local ZMOD_ADC_CAL buffer: [valid, rec]
    cbRead,   \* the local cbRead
    bus,      \* the SyzygyI2cRead transactions issued, in order
    report,   \* the lines written to stdout, in order
    calls,    \* coefficient function calls made per region read
    ret,      \* value returned by FDisplayZmodADCCal
    cpc,      \* position of a single coefficient function call
    cfn,      \* "Mult" or "Add"
    cin,      \* its float argument (cg or ca)
    chg,      \* its fHighGain argument
    cloc      \* its locals and return value [fval, ival, ret]

vars == <<dev, pc, adcal, cbRead, bus, report, calls, ret, cpc, cfn, cin, chg, cloc>>
drvVars == <<dev, pc, adcal, cbRead, bus, report, calls, ret>>
coefVars == <<cpc, cfn, cin, chg, cloc>>

NoLoc == [fval |-> Val(0, 1, 0), ival |-> 0, ret |-> 0]

Line(region, kind, label, val) ==
    [region |-> region, kind |-> kind, label |-> label, val |-> val]

(* ---------------------------------------------------------------- *)
(*  FDisplayZmodADCCal                                               *)
(* ---------------------------------------------------------------- *)

\* Lines 122-129 and 152-159: label and indices into adcal.cal.
FactRawLines ==
    << <<[ch |-> 1, gain |-> "LG", kind |-> "GAIN"],   0, 0, 0>>,
       <<[ch |-> 1, gain |-> "LG", kind |-> "OFFSET"], 0, 0, 1>>,
       <<[ch |-> 1, gain |-> "HG", kind |-> "GAIN"],   0, 1, 0>>,
       <<[ch |-> 1, gain |-> "HG", kind |-> "OFFSET"], 0, 1, 1>>,
       <<[ch |-> 2, gain |-> "LG", kind |-> "GAIN"],   1, 0, 0>>,
       <<[ch |-> 2, gain |-> "LG", kind |-> "OFFSET"], 1, 0, 1>>,
       <<[ch |-> 2, gain |-> "HG", kind |-> "GAIN"],   1, 1, 0>>,
       <<[ch |-> 2, gain |-> "HG", kind |-> "OFFSET"], 1, 1, 1>> >>

UserRawLines ==
    << <<[ch |-> 1, gain |-> "LG", kind |-> "GAIN"],   0, 0, 0>>,
       <<[ch |-> 1, gain |-> "LG", kind |-> "OFFSET"], 0, 0, 1>>,
       <<[ch |-> 1, gain |-> "HG", kind |-> "GAIN"],   0, 1, 0>>,
       <<[ch |-> 1, gain |-> "HG", kind |-> "OFFSET"], 0, 1, 1>>,
       <<[ch |-> 2, gain |-> "LG", kind |-> "GAIN"],   1, 0, 0>>,
       <<[ch |-> 2, gain |-> "LG", kind |-> "OFFSET"], 1, 0, 1>>,
       <<[ch |-> 2, gain |-> "HG", kind |-> "GAIN"],   1, 1, 0>>,
       <<[ch |-> 2, gain |-> "HG", kind |-> "OFFSET"], 1, 1, 1>> >>

\* Lines 131-138 and 161-168: label, function called, indices into
\* adcal.cal and the fHighGain argument.
FactCoefLines ==
    << <<[ch |-> 1, gain |-> "Lg", kind |-> "Mult"], "Mult", 0, 0, 0, FALSE>>,
       <<[ch |-> 1, gain |-> "Lg", kind |-> "Add"],  "Add",  0, 0, 1, FALSE>>,
       <<[ch |-> 1, gain |-> "Hg", kind |-> "Mult"], "Mult", 0, 1, 0, TRUE>>,
       <<[ch |-> 1, gain |-> "Hg", kind |-> "Add"],  "Add",  0, 1, 1, TRUE>>,
       <<[ch |-> 2, gain |-> "Lg", kind |-> "Mult"], "Mult", 1, 0, 0, FALSE>>,
       <<[ch |-> 2, gain |-> "Lg", kind |-> "Add"],  "Add",  1, 0, 1, FALSE>>,
       <<[ch |-> 2, gain |-> "Hg", kind |-> "Mult"], "Mult", 1, 1, 0, TRUE>>,
       <<[ch |-> 2, gain |-> "Hg", kind |-> "Add"],  "Add",  1, 1, 1, TRUE>> >>

\* The user table with fHighGain of the third line (Ch1Hg Mult) fFalse.
UserCoefLinesWrongGain ==
    [FactCoefLines EXCEPT ![3] = <<@[1], @[2], @[3], @[4], @[5], FALSE>>]

UserCoefLines ==
    << <<[ch |-> 1, gain |-> "Lg", kind |-> "Mult"], "Mult", 0, 0, 0, FALSE>>,
       <<[ch |-> 1, gain |-> "Lg", kind |-> "Add"],  "Add",  0, 0, 1, FALSE>>,
       <<[ch |-> 1, gain |-> "Hg", kind |-> "Mult"], "Mult", 0, 1, 0, TRUE>>,
       <<[ch |-> 1, gain |-> "Hg", kind |-> "Add"],  "Add",  0, 1, 1, TRUE>>,
       <<[ch |-> 2, gain |-> "Lg", kind |-> "Mult"], "Mult", 1, 0, 0, FALSE>>,
       <<[ch |-> 2, gain |-> "Lg", kind |-> "Add"],  "Add",  1, 0, 1, FALSE>>,
       <<[ch |-> 2, gain |-> "Hg", kind |-> "Mult"], "Mult", 1, 1, 0, TRUE>>,
       <<[ch |-> 2, gain |-> "Hg", kind |-> "Add"],  "Add",  1, 1, 1, TRUE>> >>

\* The printf of the raw values of rec, one line per table row.
RawLines(region, rec, table) ==
    [ i \in 1..Len(table) |->
        Line(region, "raw", table[i][1], rec.cal[table[i][2]][table[i][3]][table[i][4]]) ]

\* The values one coefficient printf can show for a table row.
CoefValues(rec, row) ==
    LET arg == rec.cal[row[3]][row[4]][row[5]]
    IN  IF row[2] = "Mult"
        THEN { Fmt05X(x.ret) : x \in ComputeMultCoefADC1410(arg, row[6]) }
        ELSE { Fmt05X(x.ret) : x \in ComputeAddCoefADC1410(arg, row[6]) }

\* The possible outputs of the first n coefficient printfs of a table.
RECURSIVE CoefLines(_, _, _, _)
CoefLines(region, rec, table, n) ==
    IF n = 0 THEN { <<>> }
    ELSE { Append(s, Line(region, "coef", table[n][1], v)) :
             s \in CoefLines(region, rec, table, n - 1),
             v \in CoefValues(rec, table[n]) }

\* Lines 116-120 and 146-150: the date line is printed unless strftime
\* returns 0.
DateLines(region, rec) ==
    { <<>>, << Line(region, "date", "Calibration", rec.date) >> }

\* Lines 111-112 and 141-142.
ErrorLines(region, cb) ==
    << Line(region, "err_read", "failed to read", region),
       Line(region, "err_count", "received", <<cb, cbZmodAdcCal>>) >>

Xact(addr, o) ==
    [addr |-> addr, cb |-> cbZmodAdcCal, ok |-> o.ok, cbRead |-> o.cbRead]

\* The factory failure path without its return: the user read follows.
FactReadFailedContinue ==
    /\ pc = "fact"
    /\ \E o \in SyzygyI2cRead(dev, "addrAdcFactCalStart", cbZmodAdcCal) :
         /\ ~o.ok
         /\ bus' = Append(bus, Xact("addrAdcFactCalStart", o))
         /\ cbRead' = o.cbRead
         /\ adcal' = [adcal EXCEPT !.valid = FALSE]
         /\ report' = report \o ErrorLines("addrAdcFactCalStart", o.cbRead)
    /\ pc' = "user"
    /\ UNCHANGED <<dev, calls, ret>>
    /\ UNCHANGED coefVars

\* The factory failure path going back to the read.
FactReadFailedRetry ==
    /\ pc = "fact"
    /\ \E o \in SyzygyI2cRead(dev, "addrAdcFactCalStart", cbZmodAdcCal) :
         /\ ~o.ok
         /\ bus' = Append(bus, Xact("addrAdcFactCalStart", o))
         /\ cbRead' = o.cbRead
         /\ adcal' = [adcal EXCEPT !.valid = FALSE]
         /\ report' = report \o ErrorLines("addrAdcFactCalStart", o.cbRead)
    /\ pc' = "fact"
    /\ UNCHANGED <<dev, calls, ret>>
    /\ UNCHANGED coefVars

\* Lines 110-114: the factory read fails.
FactReadFailed ==
    /\ pc = "fact"
    /\ \E o \in SyzygyI2cRead(dev, "addrAdcFactCalStart", cbZmodAdcCal) :
         /\ ~o.ok
         /\ bus' = Append(bus, Xact("addrAdcFactCalStart", o))
         /\ cbRead' = o.cbRead
         /\ adcal' = [adcal EXCEPT !.valid = FALSE]
         /\ report' = report \o ErrorLines("addrAdcFactCalStart", o.cbRead)
    /\ ret' = FALSE
    /\ pc' = "done"
    /\ UNCHANGED <<dev, calls>>
    /\ UNCHANGED coefVars

\* Lines 110, 116-138: the factory read succeeds and the factory section
\* is printed.
FactReport ==
    /\ pc = "fact"
    /\ \E o \in SyzygyI2cRead(dev, "addrAdcFactCalStart", cbZmodAdcCal) :
         /\ o.ok
         /\ bus' = Append(bus, Xact("addrAdcFactCalStart", o))
         /\ cbRead' = o.cbRead
         /\ adcal' = [valid |-> TRUE, rec |-> o.data]
         /\ \E d \in DateLines("addrAdcFactCalStart", o.data),
               c \in CoefLines("addrAdcFactCalStart", o.data, FactCoefLines, Len(FactCoefLines)) :
              report' = report \o d
                          \o RawLines("addrAdcFactCalStart", o.data, FactRawLines) \o c
    /\ calls' = [calls EXCEPT !["addrAdcFactCalStart"] = @ + Len(FactCoefLines)]
    /\ pc' = "user"
    /\ UNCHANGED <<dev, ret>>
    /\ UNCHANGED coefVars

\* The user failure path printing the raw values of the stale buffer.
UserReadFailedPrintsStale ==
    /\ pc = "user"
    /\ \E o \in SyzygyI2cRead(dev, "addrAdcUserCalStart", cbZmodAdcCal) :
         /\ ~o.ok
         /\ bus' = Append(bus, Xact("addrAdcUserCalStart", o))
         /\ cbRead' = o.cbRead
         /\ adcal' = [adcal EXCEPT !.valid = FALSE]
         /\ report' = report \o ErrorLines("addrAdcUserCalStart", o.cbRead)
                         \o RawLines("addrAdcUserCalStart", adcal.rec, UserRawLines)
    /\ ret' = FALSE
    /\ pc' = "done"
    /\ UNCHANGED <<dev, calls>>
    /\ UNCHANGED coefVars

\* The user failure path returning fTrue.
UserReadFailedReturnsTrue ==
    /\ pc = "user"
    /\ \E o \in SyzygyI2cRead(dev, "addrAdcUserCalStart", cbZmodAdcCal) :
         /\ ~o.ok
         /\ bus' = Append(bus, Xact("addrAdcUserCalStart", o))
         /\ cbRead' = o.cbRead
         /\ adcal' = [adcal EXCEPT !.valid = FALSE]
         /\ report' = report \o ErrorLines("addrAdcUserCalStart", o.cbRead)
    /\ ret' = TRUE
    /\ pc' = "done"
    /\ UNCHANGED <<dev, calls>>
    /\ UNCHANGED coefVars

\* Lines 140-144: the user read fails.
UserReadFailed ==
    /\ pc = "user"
    /\ \E o \in SyzygyI2cRead(dev, "addrAdcUserCalStart", cbZmodAdcCal) :
         /\ ~o.ok
         /\ bus' = Append(bus, Xact("addrAdcUserCalStart", o))
         /\ cbRead' = o.cbRead
         /\ adcal' = [adcal EXCEPT !.valid = FALSE]
         /\ report' = report \o ErrorLines("addrAdcUserCalStart", o.cbRead)
    /\ ret' = FALSE
    /\ pc' = "done"
    /\ UNCHANGED <<dev, calls>>
    /\ UNCHANGED coefVars

\* Lines 140, 146-170: the user read succeeds, the user section is printed
\* and the function returns fTrue.
UserReport ==
    /\ pc = "user"
    /\ \E o \in SyzygyI2cRead(dev, "addrAdcUserCalStart", cbZmodAdcCal) :
         /\ o.ok
         /\ bus' = Append(bus, Xact("addrAdcUserCalStart", o))
         /\ cbRead' = o.cbRead
         /\ adcal' = [valid |-> TRUE, rec |-> o.data]
         /\ \E d \in DateLines("addrAdcUserCalStart", o.data),
               c \in CoefLines("addrAdcUserCalStart", o.data, UserCoefLines, Len(UserCoefLines)) :
              report' = report \o d
                          \o RawLines("addrAdcUserCalStart", o.data, UserRawLines) \o c
    /\ calls' = [calls EXCEPT !["addrAdcUserCalStart"] = @ + Len(UserCoefLines)]
    /\ ret' = TRUE
    /\ pc' = "done"
    /\ UNCHANGED dev
    /\ UNCHANGED coefVars

CoefIdle ==
    /\ cpc = "idle" /\ cfn = "none" /\ cin = Val(0, 1, 0) /\ chg = FALSE
    /\ cloc = NoLoc

Init ==
    /\ dev \in [Regions -> Records]
    /\ pc = "fact"
    /\ adcal = [valid |-> FALSE, rec |-> Record(0)]
    /\ cbRead = 0
    /\ bus = <<>>
    /\ report = <<>>
    /\ calls = [r \in Regions |-> 0]
    /\ ret = FALSE
    /\ CoefIdle

Next == FactReadFailed \/ FactReport \/ UserReadFailed \/ UserReport

Spec == Init /\ [][Next]_vars

(* ---------------------------------------------------------------- *)
(*  A single call of a coefficient function                          *)
(* ---------------------------------------------------------------- *)

FloatInputs ==
    {NaN} \cup { Val(m, 1, e) : m \in (-MaxMant)..MaxMant, e \in (-MaxNegExp)..MaxExp }

CoefInit ==
    /\ dev = [r \in Regions |-> Record(0)]
    /\ pc = "off"
    /\ adcal = [valid |-> FALSE, rec |-> Record(0)]
    /\ cbRead = 0
    /\ bus = <<>>
    /\ report = <<>>
    /\ calls = [r \in Regions |-> 0]
    /\ ret = FALSE
    /\ cpc = "call"
    /\ cfn = "none"
    /\ cin \in FloatInputs
    /\ chg \in BOOLEAN
    /\ cloc = NoLoc

MultCall ==
    /\ cpc = "call"
    /\ \E x \in ComputeMultCoefADC1410(cin, chg) : cloc' = x
    /\ cfn' = "Mult"
    /\ cpc' = "ret"
    /\ UNCHANGED <<cin, chg>>
    /\ UNCHANGED drvVars

AddCall ==
    /\ cpc = "call"
    /\ \E x \in ComputeAddCoefADC1410(cin, chg) : cloc' = x
    /\ cfn' = "Add"
    /\ cpc' = "ret"
    /\ UNCHANGED <<cin, chg>>
    /\ UNCHANGED drvVars

CoefNext == MultCall \/ AddCall

CoefSpec == CoefInit /\ [][CoefNext]_vars

(* ---------------------------------------------------------------- *)
(*  Vocabulary of the properties                                     *)
(* ---------------------------------------------------------------- *)

Attempted(r) == \E i \in DOMAIN bus : bus[i].addr = r
Succeeded(r) == \E i \in DOMAIN bus : bus[i].addr = r /\ bus[i].ok
Failed(r)    == \E i \in DOMAIN bus : bus[i].addr = r /\ ~bus[i].ok

IsOf(r, l) == l.region = r
IsValueOf(r, l) == l.region = r /\ l.kind \in {"raw", "coef"}

SectionLines(r) == SelectSeq(report, LAMBDA l : IsOf(r, l))
ValueLines(r) == SelectSeq(report, LAMBDA l : IsValueOf(r, l))

\* The section of a failed region: the two lines of the error notice.
IsFailureNotice(ls) ==
    /\ Len(ls) = 2
    /\ ls[1].kind = "err_read"
    /\ ls[2].kind = "err_count"

\* The coefficient a label stands for, computed from a record.
LabelCoefs(rec, label) ==
    LET c  == label.ch - 1
        g  == IF label.gain = "Hg" THEN 1 ELSE 0
        hg == label.gain = "Hg"
    IN  IF label.kind = "Mult"
        THEN { Fmt05X(x.ret) : x \in ComputeMultCoefADC1410(rec.cal[c][g][0], hg) }
        ELSE { Fmt05X(x.ret) : x \in ComputeAddCoefADC1410(rec.cal[c][g][1], hg) }

CoefLabels ==
    [ch : {1, 2}, gain : {"Lg", "Hg"}, kind : {"Mult", "Add"}]

Bit17(v) == (v \div 131072) % 2
Low17(v) == v % 131072

\* floor(Scaled + 0.5) mod 2^18 with Scaled = (ca / ideal) * 2^17 taken
\* exactly, for a finite ca whose Scaled is of moderate size.
FloorHalfUp(ca, fHighGain) ==
    LET q == IF fHighGain THEN 1 ELSE 25
        E == ca.e + 17
    IN  IF E >= 0
        THEN ((2 * ca.p * 2^E + q) \div (2 * q)) % 262144
        ELSE ((2 * ca.p + q * 2^(-E)) \div (q * 2^(1 - E))) % 262144

Moderate(ca) == ~ca.nan /\ ca.e + 17 >= -20 /\ ca.e + 17 <= 20

(* ---------------------------------------------------------------- *)
(*  Properties of FDisplayZmodADCCal (specification Spec)            *)
(* ---------------------------------------------------------------- *)

\* C1 (as stated): whenever the factory read failed and the driver has
\* finished, the user read was still attempted, and if it succeeded the
\* report holds the 16 user lines.
C1_UserAttemptedAfterFactoryFailure ==
    (pc = "done" /\ Failed("addrAdcFactCalStart")) =>
        /\ Attempted("addrAdcUserCalStart")
        /\ Succeeded("addrAdcUserCalStart") =>
               Len(ValueLines("addrAdcUserCalStart")) = 16

\* C1 (amended): once the factory read has failed the driver is finished
\* and has returned fFalse; the factory section is the failure notice only
\* (no coefficient line), the user read is not attempted and no user line
\* is printed.
C1_FactoryFailureEndsRun ==
    Failed("addrAdcFactCalStart") =>
        /\ pc = "done"
        /\ ret = FALSE
        /\ IsFailureNotice(SectionLines("addrAdcFactCalStart"))
        /\ Len(ValueLines("addrAdcFactCalStart")) = 0
        /\ ~Attempted("addrAdcUserCalStart")
        /\ Len(SectionLines("addrAdcUserCalStart")) = 0

C1_Witness ==
    /\ pc = "done"
    /\ Len(bus) = 1
    /\ ~bus[1].ok
    /\ bus[1].addr = "addrAdcFactCalStart"
    /\ dev["addrAdcFactCalStart"] # dev["addrAdcUserCalStart"]

\* C2: a region whose read failed has in the report exactly its error
\* notice, which carries the bytes received and the bytes expected (fewer
\* received than expected); no date, raw or coefficient line, and no
\* coefficient function call for it.
C2_FailedRegionOnlyNotice ==
    \A i \in DOMAIN bus :
        ~bus[i].ok =>
            LET ls == SectionLines(bus[i].addr)
            IN  /\ IsFailureNotice(ls)
                /\ ls[2].val = <<bus[i].cbRead, cbZmodAdcCal>>
                /\ bus[i].cbRead < cbZmodAdcCal
                /\ \A j \in DOMAIN ls : ls[j].kind \notin {"date", "raw", "coef"}
                /\ calls[bus[i].addr] = 0

C2_Witness ==
    /\ Len(bus) = 2
    /\ bus[2].addr = "addrAdcUserCalStart"
    /\ ~bus[2].ok
    /\ bus[2].cbRead > 0
    /\ Len(ValueLines("addrAdcFactCalStart")) = 16

\* C8: a region whose read succeeded has 8 raw lines followed by 8
\* coefficient lines, one per (channel, gain range, kind), each showing the
\* coefficient of that region's own record entry at that channel and gain
\* range (Mult of the gain entry, Add of the offset entry) computed with
\* the entry's own gain range.
C8_CoefficientsOfOwnRegion ==
    \A r \in Regions :
        Succeeded(r) =>
            LET ls == ValueLines(r)
            IN  /\ Len(ls) = 16
                /\ \A i \in 1..8 : ls[i].kind = "raw"
                /\ \A i \in 9..16 : ls[i].kind = "coef"
                /\ \A lb \in CoefLabels :
                     /\ Cardinality({ i \in 9..16 : ls[i].label = lb }) = 1
                     /\ \A i \in 9..16 :
                          ls[i].label = lb => ls[i].val \in LabelCoefs(dev[r], lb)
                /\ calls[r] = 8

C8_Witness ==
    /\ pc = "done"
    /\ Succeeded("addrAdcFactCalStart")
    /\ Succeeded("addrAdcUserCalStart")
    /\ dev["addrAdcFactCalStart"] # dev["addrAdcUserCalStart"]
    /\ ValueLines("addrAdcFactCalStart") # ValueLines("addrAdcUserCalStart")

\* C9: when the driver has finished it has returned fTrue exactly when
\* both reads succeeded, in which case all 32 value lines are in the
\* report; it has returned fFalse whenever a read failed.
C9_ReturnValue ==
    pc = "done" =>
        /\ ret = TRUE <=> (Succeeded("addrAdcFactCalStart")
                            /\ Succeeded("addrAdcUserCalStart"))
        /\ ret = TRUE => Len(ValueLines("addrAdcFactCalStart"))
                          + Len(ValueLines("addrAdcUserCalStart")) = 32
        /\ (Failed("addrAdcFactCalStart") \/ Failed("addrAdcUserCalStart"))
              => ret = FALSE

C9_Witness ==
    /\ pc = "done"
    /\ ret = FALSE
    /\ Succeeded("addrAdcFactCalStart")
    /\ Failed("addrAdcUserCalStart")

\* C10: at most two reads are issued, at most one per region, every one
\* for the full record size, the factory read first, and no read follows a
\* failed read.
C10_OneReadPerRegion ==
    /\ Len(bus) <= 2
    /\ \A i \in DOMAIN bus : bus[i].cb = cbZmodAdcCal /\ bus[i].addr \in Regions
    /\ \A i, j \in DOMAIN bus : i # j => bus[i].addr # bus[j].addr
    /\ Len(bus) >= 1 => bus[1].addr = "addrAdcFactCalStart"
    /\ \A i, j \in DOMAIN bus : (i < j /\ ~bus[i].ok) => bus[j].addr # bus[i].addr

C10_Witness ==
    /\ Len(bus) = 2
    /\ bus[1].ok
    /\ bus[2].addr = "addrAdcUserCalStart"
    /\ ~bus[2].ok
    /\ pc = "done"

(* ---------------------------------------------------------------- *)
(*  Properties of the coefficient functions (specification CoefSpec) *)
(* ---------------------------------------------------------------- *)

\* C3: the value returned by either function lies in [0, 0x3FFFF] and is
\* congruent to the rounded value modulo 2^18 (reduced, not saturated).
C3_BitWidth ==
    cpc = "ret" =>
        /\ cloc.ret \in 0..262143
        /\ (cloc.ret - (cloc.ival % 262144)) % 262144 = 0
        /\ (cloc.ival \in 0..262143) => cloc.ret = cloc.ival

C3_Witness ==
    /\ cpc = "ret"
    /\ ~cloc.fval.nan
    /\ cloc.ival < -262144
    /\ cloc.ival > Int32Min
    /\ cloc.ret # 0

\* C4 (as stated): ComputeMultCoefADC1410(0.0, fFalse) rounds to 68813 and
\* its encoding prints as 0x10C8D.
C4_LowGainKnownValue_0x10C8D ==
    (cpc = "ret" /\ cfn = "Mult" /\ cin = Val(0, 1, 0) /\ ~chg) =>
        /\ cloc.ival = 68813
        /\ Fmt05X(cloc.ret) = <<1, 0, 12, 8, 13>>

\* C4 (amended): ComputeMultCoefADC1410(0.0, fFalse) has fval the float
\* nearest 68812.8 = 344064/5, rounds to 68813 and its encoding prints as
\* 0x10CCD.
C4_LowGainKnownValue ==
    (cpc = "ret" /\ cfn = "Mult" /\ cin = Val(0, 1, 0) /\ ~chg) =>
        /\ cloc.fval = ToFloat(Val(344064, 5, 0))
        /\ cloc.ival = 68813
        /\ cloc.ret = 68813
        /\ Fmt05X(cloc.ret) = <<1, 0, 12, 12, 13>>

C4_Witness ==
    cpc = "ret" /\ cfn = "Mult" /\ cin = Val(0, 1, 0) /\ ~chg /\ cloc.ival > 0

\* C5 (as stated): ComputeMultCoefADC1410(0.0, fTrue) rounds to 71197 and
\* its encoding prints as 0x115DD.
C5_HighGainKnownValue_0x115DD ==
    (cpc = "ret" /\ cfn = "Mult" /\ cin = Val(0, 1, 0) /\ chg) =>
        /\ cloc.ival = 71197
        /\ Fmt05X(cloc.ret) = <<1, 1, 5, 13, 13>>

\* C5 (amended): ComputeMultCoefADC1410(0.0, fTrue) has fval the float
\* nearest 1.086 * 2^16 = 71172.096 = 8896512/125, rounds to 71172 and its
\* encoding prints as 0x11604.
C5_HighGainKnownValue ==
    (cpc = "ret" /\ cfn = "Mult" /\ cin = Val(0, 1, 0) /\ chg) =>
        /\ cloc.fval = ToFloat(Val(8896512, 125, 0))
        /\ cloc.ival = 71172
        /\ cloc.ret = 71172
        /\ Fmt05X(cloc.ret) = <<1, 1, 6, 0, 4>>

C5_Witness ==
    cpc = "ret" /\ cfn = "Mult" /\ cin = Val(0, 1, 0) /\ chg /\ cloc.ival > 0

\* C6: ComputeAddCoefADC1410 returns floor(Scaled + 0.5) mod 2^18, where
\* Scaled = (offsetError / idealFullScale) * 2^17, negative offsets
\* included.
C6_AddRoundsByFloor ==
    (cpc = "ret" /\ cfn = "Add" /\ Moderate(cin)) =>
        cloc.ret = FloorHalfUp(cin, chg)

====
